---- MODULE Spec2Model ----
(***************************************************************************)
(* A model of the BF front end in src/rust_src/src/bfir.rs: the IR type    *)
(* Instruction, the bracket matcher find_close and the recursive tree      *)
(* builder parse_between / parse.  The recursion of parse_between is an    *)
(* explicit call stack; positions are 0-based as in the source.            *)
(***************************************************************************)
EXTENDS Integers, Sequences, FiniteSets

VARIABLES source, stack, pc, result, max_active

vars == <<source, stack, pc, result, max_active>>

\* ---------------------------------------------------------------- bounds
MaxLen == 4
MaxLenBetween == 4

\* ------------------------------------------------------------- alphabet
SimpleSymbols == {"+", "-", ">", "<", ",", "."}
Commentary == {"f"}
Alphabet == SimpleSymbols \cup {"[", "]"} \cup Commentary

SourcesUpTo(n) == UNION {[1..k -> Alphabet] : k \in 0..n}

\* ------------------------------------------------------------------- IR
Increment(d) == [kind |-> "Increment", delta |-> d, body |-> <<>>]
Set(d) == [kind |-> "Set", delta |-> d, body |-> <<>>]
PointerIncrement(d) == [kind |-> "PointerIncrement", delta |-> d, body |-> <<>>]
Read == [kind |-> "Read", delta |-> 0, body |-> <<>>]
Write == [kind |-> "Write", delta |-> 0, body |-> <<>>]
Loop(b) == [kind |-> "Loop", delta |-> 0, body |-> b]

\* source.chars().count() and chars[index], 0-based
character_count(s) == Len(s)
CharAt(s, i) == s[i + 1]

\* ---------------------------------------------------------- find_close
None == [tag |-> "None", index |-> 0]
Some(i) == [tag |-> "Some", index |-> i]
AssertFailed == [tag |-> "AssertFailed", index |-> 0]

\* the match of lines 97-101
DepthStep(c) == IF c = "[" THEN 1 ELSE IF c = "]" THEN -1 ELSE 0

\* the for loop of lines 92-106, entered at position index with nesting_depth
RECURSIVE find_close_scan(_, _, _, _)
find_close_scan(s, open_index, index, nesting_depth) ==
    IF index >= character_count(s) THEN None
    ELSE IF index < open_index
         THEN find_close_scan(s, open_index, index + 1, nesting_depth)
         ELSE LET d == nesting_depth + DepthStep(CharAt(s, index))
              IN  IF d = 0 THEN Some(index)
                  ELSE find_close_scan(s, open_index, index + 1, d)

\* a plausible slip: the first closing marker after open_index, nesting ignored
RECURSIVE first_close_scan(_, _)
first_close_scan(s, index) ==
    IF index >= character_count(s) THEN None
    ELSE IF CharAt(s, index) = "]" THEN Some(index)
    ELSE first_close_scan(s, index + 1)

find_close_first(s, open_index) ==
    IF open_index >= character_count(s) \/ CharAt(s, open_index) # "["
    THEN AssertFailed
    ELSE first_close_scan(s, open_index)

\* a plausible slip: an exhausted scan reports the last position
find_close_last(s, open_index) ==
    IF open_index >= character_count(s) \/ CharAt(s, open_index) # "["
    THEN AssertFailed
    ELSE LET r == find_close_scan(s, open_index, 0, 0)
         IN  IF r = None THEN Some(character_count(s) - 1) ELSE r

find_close(s, open_index) ==
    IF open_index >= character_count(s) \/ CharAt(s, open_index) # "["
    THEN AssertFailed
    ELSE find_close_scan(s, open_index, 0, 0)

\* --------------------------------------------------------- parse_between
\* a plausible slip: commentary falls into an emitting arm
EmitComment(c) ==
    CASE c = "+" -> <<Increment(1)>>
      [] c = "-" -> <<Increment(-1)>>
      [] c = ">" -> <<PointerIncrement(1)>>
      [] c = "<" -> <<PointerIncrement(-1)>>
      [] c = "," -> <<Read>>
      [] c = "." -> <<Write>>
      [] c = "]" -> <<>>
      [] OTHER -> <<Write>>

\* a plausible slip: a decrement emitted as an assignment of a wider delta
EmitWide(c) ==
    CASE c = "+" -> <<Increment(1)>>
      [] c = "-" -> <<Set(-1)>>
      [] c = ">" -> <<PointerIncrement(1)>>
      [] c = "<" -> <<PointerIncrement(-2)>>
      [] c = "," -> <<Read>>
      [] c = "." -> <<Write>>
      [] OTHER -> <<>>

\* the arms of the match of lines 57-79 other than '[': what is pushed
Emit(c) ==
    CASE c = "+" -> <<Increment(1)>>
      [] c = "-" -> <<Increment(-1)>>
      [] c = ">" -> <<PointerIncrement(1)>>
      [] c = "<" -> <<PointerIncrement(-1)>>
      [] c = "," -> <<Read>>
      [] c = "." -> <<Write>>
      [] OTHER -> <<>>

\* an activation of parse_between: its arguments and its locals
Frame(s, e) ==
    [start |-> s, end |-> e, index |-> s, instructions |-> <<>>, close_index |-> 0]

Top == stack[Len(stack)]
Terminal == {"done", "abort_unwrap", "assert_fail"}

TypeOK ==
    /\ \A i \in 1..Len(source) : source[i] \in Alphabet
    /\ pc \in {"parse", "enter", "loop"} \cup Terminal
    /\ max_active \in Nat

\* state before the call parse(source)
Init ==
    /\ source \in SourcesUpTo(MaxLen)
    /\ stack = <<>>
    /\ pc = "parse"
    /\ result = <<>>
    /\ max_active = 0

\* state at a direct call parse_between(source, start, end)
InitBetween ==
    /\ source \in SourcesUpTo(MaxLenBetween)
    /\ \E s, e \in 0..(MaxLenBetween + 1) :
          /\ s <= character_count(source) + 1
          /\ e <= character_count(source) + 1
          /\ stack = <<Frame(s, e)>>
    /\ pc = "enter"
    /\ result = <<>>
    /\ max_active = 0

\* parse: line 43
parse ==
    /\ pc = "parse"
    /\ stack' = <<Frame(0, character_count(source))>>
    /\ pc' = "enter"
    /\ UNCHANGED <<source, result, max_active>>

\* the assertions of lines 50-51 and the locals of lines 53-54
Enter ==
    /\ pc = "enter"
    /\ IF Top.start <= Top.end /\ Top.end <= character_count(source)
       THEN /\ pc' = "loop"
            /\ stack' = stack
       ELSE /\ pc' = "assert_fail"
            /\ stack' = <<>>
    /\ UNCHANGED <<source, result, max_active>>

\* a plausible slip: the cursor is not advanced past a commentary character
StepSymbolStuck ==
    /\ pc = "loop"
    /\ Top.index < Top.end
    /\ CharAt(source, Top.index) # "["
    /\ stack' = [stack EXCEPT ![Len(stack)] =
                    [@ EXCEPT !.instructions = @ \o Emit(CharAt(source, Top.index)),
                              !.index = IF CharAt(source, Top.index) \in Commentary
                                        THEN @ ELSE @ + 1]]
    /\ UNCHANGED <<source, pc, result, max_active>>

\* a plausible slip: a run of '+'/'-' folded into the previous Increment
FoldPush(instrs, new) ==
    IF /\ new # <<>> /\ instrs # <<>>
       /\ new[1].kind = "Increment" /\ instrs[Len(instrs)].kind = "Increment"
    THEN [instrs EXCEPT ![Len(instrs)] = Increment(@.delta + new[1].delta)]
    ELSE instrs \o new

StepSymbolFold ==
    /\ pc = "loop"
    /\ Top.index < Top.end
    /\ CharAt(source, Top.index) # "["
    /\ stack' = [stack EXCEPT ![Len(stack)] =
                    [@ EXCEPT !.instructions =
                                  FoldPush(@, Emit(CharAt(source, Top.index))),
                              !.index = @ + 1]]
    /\ UNCHANGED <<source, pc, result, max_active>>

\* one iteration of the while loop on a character other than '[':
\* lines 56-69, 78, 81
StepSymbol ==
    /\ pc = "loop"
    /\ Top.index < Top.end
    /\ CharAt(source, Top.index) # "["
    /\ stack' = [stack EXCEPT ![Len(stack)] =
                    [@ EXCEPT !.instructions = @ \o Emit(CharAt(source, Top.index)),
                              !.index = @ + 1]]
    /\ UNCHANGED <<source, pc, result, max_active>>

\* what the '[' arm does with the outcome r of find_close
OpenWith(r) ==
    CASE r.tag = "Some" ->
            /\ stack' = Append([stack EXCEPT ![Len(stack)].close_index = r.index],
                               Frame(Top.index + 1, r.index))
            /\ pc' = "enter"
            /\ max_active' = IF Len(stack) > max_active THEN Len(stack) ELSE max_active
      [] r.tag = "None" ->
            /\ stack' = <<>>
            /\ pc' = "abort_unwrap"
            /\ max_active' = max_active
      [] OTHER ->
            /\ stack' = <<>>
            /\ pc' = "assert_fail"
            /\ max_active' = max_active

\* a plausible slip: the matcher is asked about the position after the opener
StepOpenOffByOne ==
    /\ pc = "loop"
    /\ Top.index < Top.end
    /\ CharAt(source, Top.index) = "["
    /\ OpenWith(find_close(source, Top.index + 1))
    /\ UNCHANGED <<source, result>>

\* the '[' arm up to the recursive call: lines 70-73
StepOpen ==
    /\ pc = "loop"
    /\ Top.index < Top.end
    /\ CharAt(source, Top.index) = "["
    /\ OpenWith(find_close(source, Top.index))
    /\ UNCHANGED <<source, result>>

\* a plausible slip: `index = close_index` (line 76) left out
ReturnInnerNoJump ==
    /\ pc = "loop"
    /\ Len(stack) > 1
    /\ Top.index >= Top.end
    /\ LET caller == stack[Len(stack) - 1]
           loop_body == Top.instructions
       IN  stack' = [SubSeq(stack, 1, Len(stack) - 1) EXCEPT ![Len(stack) - 1] =
                        [caller EXCEPT !.instructions = Append(@, Loop(loop_body)),
                                       !.index = @ + 1,
                                       !.close_index = 0]]
    /\ UNCHANGED <<source, pc, result, max_active>>

\* a plausible slip: the body is spliced into the caller instead of wrapped
ReturnInnerFlat ==
    /\ pc = "loop"
    /\ Len(stack) > 1
    /\ Top.index >= Top.end
    /\ LET caller == stack[Len(stack) - 1]
           loop_body == Top.instructions
       IN  stack' = [SubSeq(stack, 1, Len(stack) - 1) EXCEPT ![Len(stack) - 1] =
                        [caller EXCEPT !.instructions = @ \o loop_body,
                                       !.index = caller.close_index + 1,
                                       !.close_index = 0]]
    /\ UNCHANGED <<source, pc, result, max_active>>

\* a recursive activation returns (line 84) and its caller finishes the
\* '[' arm and the iteration: lines 73-76, 81
ReturnInner ==
    /\ pc = "loop"
    /\ Len(stack) > 1
    /\ Top.index >= Top.end
    /\ LET caller == stack[Len(stack) - 1]
           loop_body == Top.instructions
       IN  stack' = [SubSeq(stack, 1, Len(stack) - 1) EXCEPT ![Len(stack) - 1] =
                        [caller EXCEPT !.instructions = Append(@, Loop(loop_body)),
                                       !.index = caller.close_index + 1,
                                       !.close_index = 0]]
    /\ UNCHANGED <<source, pc, result, max_active>>

\* the outermost activation returns: line 84 (and line 43 for parse)
ReturnTop ==
    /\ pc = "loop"
    /\ Len(stack) = 1
    /\ Top.index >= Top.end
    /\ result' = Top.instructions
    /\ pc' = "done"
    /\ UNCHANGED <<source, stack, max_active>>

NextBetween == Enter \/ StepSymbol \/ StepOpen \/ ReturnInner \/ ReturnTop
Next == parse \/ NextBetween

Spec == Init /\ [][Next]_vars
SpecBetween == InitBetween /\ [][NextBetween]_vars
\* the computation is sequential and has no suspension point: a step that
\* can be taken is taken
FairSpec == Init /\ [][Next]_vars /\ WF_vars(Next)

\* ===================================================================
\* Notions the properties are stated with, defined apart from the code
\* ===================================================================
Max(S) == CHOOSE m \in S : \A x \in S : x <= m
Range(f) == {f[i] : i \in DOMAIN f}
CountChar(s, cs, lo, hi) ==
    Cardinality({k \in lo..hi : k >= 0 /\ k < Len(s) /\ CharAt(s, k) \in cs})

\* left-to-right scan with a counter of open markers; a closing marker with
\* nothing open is plain text.  Yields <<open at the end, largest open count>>
RECURSIVE OpenScan(_, _, _, _)
OpenScan(s, i, open, most) ==
    IF i > Len(s) THEN <<open, most>>
    ELSE IF s[i] = "[" THEN OpenScan(s, i + 1, open + 1, Max({most, open + 1}))
    ELSE IF s[i] = "]" /\ open > 0 THEN OpenScan(s, i + 1, open - 1, most)
    ELSE OpenScan(s, i + 1, open, most)

AllOpensMatched(s) == OpenScan(s, 1, 0, 0)[1] = 0
MaxNest(s) == OpenScan(s, 1, 0, 0)[2]

\* well-balanced: no closing marker without an opener, and nothing left open
Balanced(s) ==
    /\ CountChar(s, {"["}, 0, Len(s) - 1) = CountChar(s, {"]"}, 0, Len(s) - 1)
    /\ \A k \in 0..(Len(s) - 1) :
          CountChar(s, {"["}, 0, k) >= CountChar(s, {"]"}, 0, k)

RefNode(c) ==
    IF c = "+" THEN <<Increment(1)>>
    ELSE IF c = "-" THEN <<Increment(0 - 1)>>
    ELSE IF c = ">" THEN <<PointerIncrement(1)>>
    ELSE IF c = "<" THEN <<PointerIncrement(0 - 1)>>
    ELSE IF c = "," THEN <<Read>>
    ELSE IF c = "." THEN <<Write>>
    ELSE <<>>

\* the reference tree, built in one pass with a stack of unfinished bodies
RECURSIVE RefScan(_, _, _)
RefScan(s, i, open) ==
    IF i > Len(s) THEN open
    ELSE LET n == Len(open) IN
         IF s[i] = "[" THEN RefScan(s, i + 1, Append(open, <<>>))
         ELSE IF s[i] = "]"
              THEN IF n > 1
                   THEN RefScan(s, i + 1,
                            [SubSeq(open, 1, n - 1) EXCEPT ![n - 1] =
                                Append(@, Loop(open[n]))])
                   ELSE RefScan(s, i + 1, open)
              ELSE RefScan(s, i + 1, [open EXCEPT ![n] = @ \o RefNode(s[i])])

RefTree(s) == RefScan(s, 1, <<(<<>>)>>)[1]

RECURSIVE CountNodes(_, _)
CountNodes(instrs, k) ==
    IF instrs = <<>> THEN 0
    ELSE (IF Head(instrs).kind = k THEN 1 ELSE 0)
         + CountNodes(Head(instrs).body, k) + CountNodes(Tail(instrs), k)

RECURSIVE TreeDepth(_)
TreeDepth(instrs) ==
    Max({0} \cup {IF instrs[i].kind = "Loop" THEN 1 + TreeDepth(instrs[i].body) ELSE 0 :
                     i \in 1..Len(instrs)})

RECURSIVE OnlyUnitNodes(_)
OnlyUnitNodes(instrs) ==
    \A i \in 1..Len(instrs) :
        LET n == instrs[i] IN
        /\ n.kind \in {"Increment", "PointerIncrement", "Read", "Write", "Loop"}
        /\ n.kind \in {"Increment", "PointerIncrement"} => n.delta \in {1, 0 - 1}
        /\ OnlyUnitNodes(n.body)

\* ===================================================================
\* Properties
\* ===================================================================

\* C1: on a source in which every '[' has a matching ']', parse returns, and
\* what it returns is the reference tree of the source.
C1_ParseIsReferenceTree ==
    (pc \in Terminal /\ AllOpensMatched(source)) =>
        (pc = "done" /\ result = RefTree(source))

C1_Witness ==
    /\ pc = "done"
    /\ Len(result) >= 2
    /\ \E i \in 1..Len(result) : result[i].kind = "Loop" /\ result[i].body # <<>>

\* C2: parse aborts on the unwrap exactly when some '[' has no matching ']';
\* otherwise it returns, unmatched ']' and commentary included; an abort
\* leaves no result.
C2_AbortIffUnmatchedOpen ==
    /\ pc \in Terminal => (pc = "abort_unwrap" <=> ~AllOpensMatched(source))
    /\ pc \in Terminal => (pc = "done" <=> AllOpensMatched(source))
    /\ pc = "abort_unwrap" => (result = <<>> /\ stack = <<>>)

C2_Witness ==
    /\ pc = "abort_unwrap"
    /\ "]" \in Range(source)
    /\ max_active >= 1

\* C3: on a well-balanced source, find_close at any '[' yields Some(j) with
\* j > open_index, a ']' at j, as many '[' as ']' in open_index..j and in no
\* shorter span open_index..k; the activations waiting on a loop body hold
\* such a j as close_index.
C3_FindCloseFirstReturnToZero ==
    Balanced(source) =>
        /\ \A o \in 0..(Len(source) - 1) :
              CharAt(source, o) = "[" =>
                  LET r == find_close(source, o) IN
                  /\ r.tag = "Some"
                  /\ r.index > o
                  /\ CharAt(source, r.index) = "]"
                  /\ CountChar(source, {"["}, o, r.index)
                       = CountChar(source, {"]"}, o, r.index)
                  /\ \A k \in o..(r.index - 1) :
                        CountChar(source, {"["}, o, k) # CountChar(source, {"]"}, o, k)
        /\ \A f \in 1..(Len(stack) - 1) :
              stack[f].close_index = find_close(source, stack[f].index).index

C3_Witness ==
    /\ Balanced(source)
    /\ Len(stack) = 3
    /\ stack[1].close_index > stack[2].close_index

\* C4: a source of commentary characters only parses to the empty sequence.
C4_CommentaryOnlyIsEmpty ==
    (pc \in Terminal /\ Range(source) \subseteq Commentary) =>
        (pc = "done" /\ result = <<>>)

C4_Witness ==
    /\ pc = "done"
    /\ Len(source) >= 2
    /\ Range(source) \subseteq Commentary

\* C5: every Increment and PointerIncrement built by the parser, at any depth,
\* has delta 1 or -1, and no Set node is built.
C5_UnitDeltasNoSet ==
    /\ OnlyUnitNodes(result)
    /\ \A f \in 1..Len(stack) : OnlyUnitNodes(stack[f].instructions)

C5_Witness ==
    /\ pc = "done"
    /\ \E i \in 1..Len(result) :
          /\ result[i].kind = "Loop"
          /\ \E j \in 1..Len(result[i].body) :
                result[i].body[j] \in {Increment(0 - 1), PointerIncrement(0 - 1)}

\* C6: parse_between on a valid range builds nodes only from the characters of
\* [start, end): no activation reaches outside the range, the cursor stays at
\* or below end, and the result has one node per recognized symbol of the range.
C6_StaysInRange ==
    (/\ stack # <<>>
     /\ stack[1].start <= stack[1].end
     /\ stack[1].end <= character_count(source)) =>
        /\ stack[1].index <= stack[1].end
        /\ \A f \in 1..Len(stack) :
              stack[f].start >= stack[1].start /\ stack[f].end <= stack[1].end
        /\ pc = "done" =>
              CountNodes(result, "Loop")
              + CountNodes(result, "Increment") + CountNodes(result, "PointerIncrement")
              + CountNodes(result, "Read") + CountNodes(result, "Write")
                 = CountChar(source, SimpleSymbols \cup {"["},
                             stack[1].start, stack[1].end - 1)

\* C7: when parse returns, the tree has one Increment per '+' or '-', one
\* PointerIncrement per '>' or '<', one Read per ',', one Write per '.' and
\* one Loop per '['.
C7_OneNodePerSymbol ==
    pc = "done" =>
        LET n == Len(source) - 1 IN
        /\ CountNodes(result, "Increment") = CountChar(source, {"+", "-"}, 0, n)
        /\ CountNodes(result, "PointerIncrement") = CountChar(source, {">", "<"}, 0, n)
        /\ CountNodes(result, "Read") = CountChar(source, {","}, 0, n)
        /\ CountNodes(result, "Write") = CountChar(source, {"."}, 0, n)
        /\ CountNodes(result, "Loop") = CountChar(source, {"["}, 0, n)

C7_Witness ==
    /\ pc = "done"
    /\ CountNodes(result, "Increment") >= 2
    /\ CountNodes(result, "Loop") >= 1

\* C8: when parse returns, the largest number of parse_between activations
\* nested below the top-level one, the deepest Loop-in-Loop nesting of the
\* result and the deepest nesting of matched pairs in the source are equal.
C8_RecursionDepthIsNesting ==
    /\ max_active <= MaxNest(source)
    /\ Len(stack) - 1 <= max_active
    /\ pc = "done" =>
          /\ max_active = MaxNest(source)
          /\ TreeDepth(result) = MaxNest(source)

C8_Witness ==
    /\ pc = "done"
    /\ max_active = 2
    /\ TreeDepth(result) = 2

\* C9: from parse no assertion fires: every activation has
\* start <= end <= character_count, every find_close was asked about a '['
\* and answered with a larger index.
C9_AssertionsNeverFire ==
    /\ pc # "assert_fail"
    /\ \A f \in 1..Len(stack) :
          stack[f].start <= stack[f].end /\ stack[f].end <= character_count(source)
    /\ \A f \in 1..(Len(stack) - 1) :
          /\ CharAt(source, stack[f].index) = "["
          /\ stack[f].close_index > stack[f].index
          /\ stack[f + 1].start = stack[f].index + 1
          /\ stack[f + 1].end = stack[f].close_index

C9_Witness ==
    /\ pc = "loop"
    /\ Len(stack) = 3
    /\ Top.start = Top.end

\* C10: the cursor of an activation grows with every iteration, a recursive
\* activation covers a shorter range than its caller, and every run ends:
\* parse returns or aborts.
CursorAdvances ==
    /\ (pc = "loop" /\ pc' = "loop" /\ Len(stack') = Len(stack)) =>
          stack'[Len(stack')].index > Top.index
    /\ (pc = "loop" /\ pc' = "loop" /\ Len(stack') = Len(stack) - 1) =>
          stack'[Len(stack')].index > stack[Len(stack) - 1].index
    /\ (pc = "loop" /\ pc' = "enter" /\ Len(stack') = Len(stack) + 1) =>
          stack'[Len(stack')].end - stack'[Len(stack')].start < Top.end - Top.start

C10_Terminates ==
    /\ [][CursorAdvances]_vars
    /\ <>(pc \in Terminal)

C10_Witness ==
    /\ pc \in Terminal
    /\ max_active >= 1
    /\ Len(source) >= 4

====
